---- MODULE Spec2Model ----
(***************************************************************************)
(* Model of the classification scheduler of the Committed extension        *)
(* (src/models/scheduler.ts) together with the pure helpers it calls       *)
(* (src/models/classifyDiff.ts).                                           *)
(*                                                                         *)
(* A JavaScript string is a sequence of one-character strings, so that     *)
(* split, trim, startsWith and includes are computed, not assumed.         *)
(* One action is one run-to-completion turn of the event loop: from the    *)
(* callback that the host invokes (timer, save event, settled I/O          *)
(* promise) to the next await that really suspends.                        *)
(***************************************************************************)
EXTENDS Integers, Sequences, FiniteSets, TLC

(* ------------------------------ bounds -------------------------------- *)

\* number of lines of a text handed to the cleaning functions
MaxLines == 3
\* number of cycles one behaviour may start
MaxCycles == 2
\* confidences are the rationals 0/MaxConf .. MaxConf/MaxConf
MaxConf == 2

(* ------------------------------ strings ------------------------------- *)

NL == "\n"

\* a trim that only knows the space
IsBlankChar(c) == c = " "

\* the white space that String.prototype.trim removes, as far as the
\* modelled texts hold any
IsSpace(c) == c \in {" ", NL, "\t"}

RECURSIVE TrimStart(_)
TrimStart(s) ==
    IF s = <<>> THEN <<>>
    ELSE IF IsSpace(Head(s)) THEN TrimStart(Tail(s)) ELSE s

RECURSIVE TrimEnd(_)
TrimEnd(s) ==
    IF s = <<>> THEN <<>>
    ELSE IF IsSpace(s[Len(s)]) THEN TrimEnd(SubSeq(s, 1, Len(s) - 1)) ELSE s

\* String.prototype.trim
Trim(s) == TrimEnd(TrimStart(s))

\* String.prototype.startsWith
StartsWith(s, p) == Len(s) >= Len(p) /\ SubSeq(s, 1, Len(p)) = p

\* String.prototype.includes
Includes(s, p) ==
    \E i \in 1..(Len(s) - Len(p) + 1) : SubSeq(s, i, i + Len(p) - 1) = p

\* s.split("\n"): the lines of s, the empty string giving one empty line
RECURSIVE SplitAcc(_, _, _)
SplitAcc(s, cur, acc) ==
    IF s = <<>> THEN Append(acc, cur)
    ELSE IF Head(s) = NL THEN SplitAcc(Tail(s), <<>>, Append(acc, cur))
    ELSE SplitAcc(Tail(s), Append(cur, Head(s)), acc)

Split(s) == SplitAcc(s, <<>>, <<>>)

\* lines.join("\n")
RECURSIVE Join(_)
Join(lines) ==
    IF lines = <<>> THEN <<>>
    ELSE IF Len(lines) = 1 THEN lines[1]
    ELSE lines[1] \o <<NL>> \o Join(Tail(lines))

IndexPrefix == <<"i", "n", "d", "e", "x", " ">>
GitBinaryPatch ==
    <<"G", "I", "T", " ", "b", "i", "n", "a", "r", "y", " ",
      "p", "a", "t", "c", "h">>
BinaryFiles == <<"B", "i", "n", "a", "r", "y", " ", "f", "i", "l", "e", "s">>
BinarySentinel ==
    <<"[", "B", "I", "N", "A", "R", "Y", " ", "F", "I", "L", "E", " ",
      "C", "H", "A", "N", "G", "E", "S", " ",
      "O", "M", "I", "T", "T", "E", "D", "]">>

\* a loop that does not look for the binary-file notice
RECURSIVE ScanWithoutNotice(_, _)
ScanWithoutNotice(lines, cleanedLines) ==
    IF lines = <<>> THEN [binary |-> FALSE, cleanedLines |-> cleanedLines]
    ELSE LET line == Head(lines) IN
         IF StartsWith(line, IndexPrefix)
         THEN ScanWithoutNotice(Tail(lines), cleanedLines)
         ELSE IF StartsWith(line, GitBinaryPatch)
         THEN [binary |-> TRUE, cleanedLines |-> cleanedLines]
         ELSE ScanWithoutNotice(Tail(lines), Append(cleanedLines, line))

\* a loop that pushes the "index " lines too
RECURSIVE ScanKeepsIndex(_, _)
ScanKeepsIndex(lines, cleanedLines) ==
    IF lines = <<>> THEN [binary |-> FALSE, cleanedLines |-> cleanedLines]
    ELSE LET line == Head(lines) IN
         IF StartsWith(line, GitBinaryPatch) \/ Includes(line, BinaryFiles)
         THEN [binary |-> TRUE, cleanedLines |-> cleanedLines]
         ELSE ScanKeepsIndex(Tail(lines), Append(cleanedLines, line))

\* the for loop of preprocessDiff: "index " lines are skipped, a binary
\* marker returns at once, every other line is pushed
RECURSIVE ScanDiffLines(_, _)
ScanDiffLines(lines, cleanedLines) ==
    IF lines = <<>> THEN [binary |-> FALSE, cleanedLines |-> cleanedLines]
    ELSE LET line == Head(lines) IN
         IF StartsWith(line, IndexPrefix)
         THEN ScanDiffLines(Tail(lines), cleanedLines)
         ELSE IF StartsWith(line, GitBinaryPatch) \/ Includes(line, BinaryFiles)
         THEN [binary |-> TRUE, cleanedLines |-> cleanedLines]
         ELSE ScanDiffLines(Tail(lines), Append(cleanedLines, line))

preprocessDiff(rawDiff) ==
    IF rawDiff = <<>> \/ Trim(rawDiff) = <<>> THEN <<>>
    ELSE LET scan == ScanDiffLines(Split(rawDiff), <<>>) IN
         IF scan.binary THEN BinarySentinel
         ELSE Trim(Join(scan.cleanedLines))

\* crypto sha256 hex digest: deterministic and, on the handful of texts a
\* behaviour meets, collision free; the digest is tagged so that it is
\* not a text
sha256(s) == <<"sha256", s>>

\* a filter that keeps every line
KeepEveryLine(line) == TRUE

\* a filter that forgot the context lines
KeepNoContext(line) ==
    \/ StartsWith(line, <<"@", "@">>)
    \/ StartsWith(line, <<"+">>)
    \/ StartsWith(line, <<"-">>)

\* the condition of the for loop of preprocessHunk: the hunk header, the
\* context lines and the +/- lines are pushed
KeepHunkLine(line) ==
    \/ StartsWith(line, <<"@", "@">>)
    \/ StartsWith(line, <<"+">>)
    \/ StartsWith(line, <<"-">>)
    \/ StartsWith(line, <<" ">>)

preprocessHunk(rawHunk) ==
    IF rawHunk = <<>> \/ Trim(rawHunk) = <<>> THEN <<>>
    ELSE Trim(Join(SelectSeq(Split(rawHunk), KeepHunkLine)))

(* ----------------------------- classifiers ---------------------------- *)

Reasonings == {"r1", "r2"}
ParseFailure == "Failed to parse LLM output."

\* what ollama.generate can come back with.  kind says whether the text
\* of the response is JSON; wrong names the keys of the parsed object that
\* are absent or carry a value of another type than the schema declares
\* (the record then holds a stand-in for them).
ValidResponses ==
    [kind : {"json"}, reasoning : Reasonings, result : BOOLEAN,
     confidence : 0..MaxConf, wrong : {{}}]
BadResponses ==
    {[kind |-> "text", reasoning |-> "r1", result |-> TRUE,
      confidence |-> MaxConf, wrong |-> {}],
     [kind |-> "json", reasoning |-> "r1", result |-> TRUE,
      confidence |-> MaxConf + 1, wrong |-> {}],
     [kind |-> "json", reasoning |-> "r1", result |-> TRUE,
      confidence |-> 0 - 1, wrong |-> {}],
     [kind |-> "json", reasoning |-> "r1", result |-> TRUE,
      confidence |-> MaxConf, wrong |-> {"confidence"}],
     [kind |-> "json", reasoning |-> "r2", result |-> TRUE,
      confidence |-> MaxConf, wrong |-> {"result"}]}
Responses == ValidResponses \cup BadResponses
\* the responses met where the verdicts themselves are not in question:
\* every call answers true with full confidence, so that the first call
\* decides the result, and its reasoning is one of two
FewResponses(i) ==
    [kind : {"json"},
     reasoning : IF i = 1 THEN Reasonings ELSE {"r1"},
     result : {TRUE}, confidence : {MaxConf}, wrong : {{}}]
NoResponse ==
    [kind |-> "none", reasoning |-> "", result |-> FALSE, confidence |-> 0,
     wrong |-> {}]

\* a schema without the bounds on confidence
SchemaWithoutRange(parsed) == parsed.wrong = {}

\* z.object({reasoning: string, result: boolean, confidence: 0 <= n <= 1})
ClassifierSchema(parsed) ==
    /\ parsed.wrong = {}
    /\ parsed.confidence >= 0
    /\ parsed.confidence <= MaxConf

\* a catch block that answers with full confidence
DegradedConfident ==
    [reasoning |-> ParseFailure, result |-> FALSE, confidence |-> MaxConf]

\* the object returned by the catch block of runClassifier
Degraded == [reasoning |-> ParseFailure, result |-> FALSE, confidence |-> 0]

\* the three classifications of classifyHunk and what generate() can
\* come back with for a hunk; the reasoning of a response may be the
\* empty string
HunkClassifications == {"bug fix", "refactor", "feature"}
HunkResponses ==
    [kind : {"json"}, reasoning : {"", "r1"}, relevant : BOOLEAN,
     confidence : 0..MaxConf, wrong : {{}}]
    \cup {[kind |-> "text", reasoning |-> "r1", relevant |-> TRUE,
            confidence |-> MaxConf, wrong |-> {}],
           [kind |-> "json", reasoning |-> "r1", relevant |-> TRUE,
            confidence |-> MaxConf + 1, wrong |-> {}],
           [kind |-> "json", reasoning |-> "r1", relevant |-> TRUE,
            confidence |-> 0 - 1, wrong |-> {}],
           [kind |-> "json", reasoning |-> "r1", relevant |-> TRUE,
            confidence |-> MaxConf, wrong |-> {"relevant"}],
           [kind |-> "json", reasoning |-> "", relevant |-> TRUE,
            confidence |-> MaxConf, wrong |-> {"reasoning"}]}

\* z.object({reasoning: string, relevant: boolean, confidence: 0 <= n <= 1})
HunkRelevanceSchema(parsed) ==
    /\ parsed.wrong = {}
    /\ parsed.confidence >= 0
    /\ parsed.confidence <= MaxConf

\* the try/catch of classifyHunk after generate() has resolved
classifyHunk(response) ==
    IF response.kind = "json" /\ HunkRelevanceSchema(response)
    THEN [reasoning |-> response.reasoning, relevant |-> response.relevant,
          confidence |-> response.confidence]
    ELSE [reasoning |-> ParseFailure, relevant |-> FALSE, confidence |-> 0]

\* a runClassifier that returns the parsed object as it came
runClassifierUnvalidated(response) ==
    [reasoning |-> response.reasoning, result |-> response.result,
     confidence |-> response.confidence]

\* the try/catch of runClassifier after generate() has resolved
runClassifier(response) ==
    IF response.kind = "json" /\ ClassifierSchema(response)
    THEN [reasoning |-> response.reasoning, result |-> response.result,
          confidence |-> response.confidence]
    ELSE Degraded

(* ----------------------------- arbitration ---------------------------- *)

Labels == <<"Bug Fix", "Feature", "Refactor">>

\* the array literal with the three spread results
Candidates(outs) ==
    [i \in 1..3 |->
        [label |-> Labels[i], reasoning |-> outs[i].reasoning,
         result |-> outs[i].result, confidence |-> outs[i].confidence]]

\* the comparator handed to sort
ByConfidenceDesc(a, b) == b.confidence - a.confidence

\* a sort that puts an element ahead of the earlier ones it ties with
RECURSIVE InsertAhead(_, _)
InsertAhead(sorted, x) ==
    IF sorted = <<>> THEN <<x>>
    ELSE IF ByConfidenceDesc(Head(sorted), x) < 0
    THEN <<Head(sorted)>> \o InsertAhead(Tail(sorted), x)
    ELSE <<x>> \o sorted

RECURSIVE SortLastFirst(_)
SortLastFirst(arr) ==
    IF arr = <<>> THEN <<>>
    ELSE InsertAhead(SortLastFirst(SubSeq(arr, 1, Len(arr) - 1)),
                     arr[Len(arr)])

\* Array.prototype.sort is stable: x goes behind every element that the
\* comparator does not put after it
RECURSIVE InsertSorted(_, _)
InsertSorted(sorted, x) ==
    IF sorted = <<>> THEN <<x>>
    ELSE IF ByConfidenceDesc(Head(sorted), x) <= 0
    THEN <<Head(sorted)>> \o InsertSorted(Tail(sorted), x)
    ELSE <<x>> \o sorted

RECURSIVE SortStable(_)
SortStable(arr) ==
    IF arr = <<>> THEN <<>>
    ELSE InsertSorted(SortStable(SubSeq(arr, 1, Len(arr) - 1)), arr[Len(arr)])

\* an arbitration that forgot the filter
AllOnes(candidates) == candidates

TrueOnes(candidates) == SelectSeq(candidates, LAMBDA c : c.result = TRUE)

Best(candidates) ==
    LET trueOnes == TrueOnes(candidates) IN
    SortStable(IF Len(trueOnes) # 0 THEN trueOnes ELSE candidates)[1]

\* an arbitration that always names the category of the best outcome
FinalResultLabelled(outs) ==
    LET best == Best(Candidates(outs)) IN
    [label |-> best.label, confidence |-> best.confidence,
     reasoning |-> best.reasoning]

\* finalResult of a cycle whose three classifier calls resolved
FinalResult(outs) ==
    LET candidates == Candidates(outs)
        best == Best(candidates)
    IN  IF Len(TrueOnes(candidates)) = 0
        THEN [label |-> "Unclear", confidence |-> best.confidence,
              reasoning |-> best.reasoning]
        ELSE [label |-> best.label, confidence |-> best.confidence,
              reasoning |-> best.reasoning]

(* --------------------------- the working copy ------------------------- *)

\* what "git diff" can print in the modelled workspace
EmptyDiff == <<>>
IndexOnlyDiff == <<"i", "n", "d", "e", "x", " ", "1">>
DiffA == <<"i", "n", "d", "e", "x", " ", "1", NL, "+", "a", NL>>
DiffB == <<"+", "b">>
RawDiffs == {EmptyDiff, IndexOnlyDiff, DiffA, DiffB}

\* the lines that the texts handed to the cleaning functions are made of:
\* change lines, file headers, binary markers at the start of a line and
\* inside one, blank lines
EmptyLine == <<>>
BlankContextLine == <<" ">>
IndexLine == <<"i", "n", "d", "e", "x", " ", "1">>
AddedLine == <<"+", "a">>
HunkHeaderLine == <<"@", "@", " ", "1">>
BinaryPatchLine ==
    <<"G", "I", "T", " ", "b", "i", "n", "a", "r", "y", " ", "p", "a",
      "t", "c", "h">>
BinaryNoticeLine ==
    <<"B", "i", "n", "a", "r", "y", " ", "f", "i", "l", "e", "s">>
AddedPatchTextLine ==
    <<"+", "G", "I", "T", " ", "b", "i", "n", "a", "r", "y", " ", "p",
      "a", "t", "c", "h">>
IndexNoticeLine ==
    <<"i", "n", "d", "e", "x", " ", "B", "i", "n", "a", "r", "y", " ",
      "f", "i", "l", "e", "s">>
DiffGitLine == <<"d", "i", "f", "f", " ", "-", "-", "g", "i", "t">>
OldFileLine == <<"-", "-", "-", " ", "a", "/", "f">>
NewFileLine == <<"+", "+", "+", " ", "b", "/", "f">>
ContextIndexLine == <<" ", "i", "n", "d", "e", "x", " ", "1">>
Lines ==
    {EmptyLine, BlankContextLine, IndexLine, AddedLine,
     HunkHeaderLine, BinaryPatchLine, BinaryNoticeLine, AddedPatchTextLine,
     IndexNoticeLine, DiffGitLine, OldFileLine, NewFileLine,
     ContextIndexLine}
LineSeqs == UNION {[1..n -> Lines] : n \in 0..MaxLines}

\* the hunks handed to classifyHunk
EmptyHunk == <<>>
HunkA == HunkHeaderLine \o <<NL>> \o AddedLine
RawHunks == {EmptyHunk, HunkA, DiffA, DiffB}

(* ------------------------------- state -------------------------------- *)

VARIABLES
    started,          \* start() has been called (listeners subscribed)
    intervalTimer,    \* this.intervalTimer: undefined, or a handle whose
                      \* timer is armed or cleared
    debounceTimer,    \* this.debounceTimer: undefined, or a handle whose
                      \* timeout is armed, fired or cleared
    debounceLeft,     \* the time left until the armed timeout is due
    burst,            \* the passive saves of the burst that the latest
                      \* timeout belongs to, each of which found the
                      \* timeout before it armed: 1, or 2 for two and more
    strayTimeouts,    \* armed timeouts that no field refers to any more
    running,          \* this.running: 0 is undefined, k the promise of cycle k
    pending,          \* this.pending
    lastFingerprint,  \* this.lastFingerprint
    coalesced,        \* trigger() calls that returned early since the
                      \* running cycle began: 0, 1, or 2 for two and more
    nCycles,          \* number of cycle bodies started so far
    cycle,            \* per cycle: the position of its body, its classifier
                      \* calls and how it ended
    published,        \* the calls made to the publish callback, in order
    persisted,        \* globalState["committed.lastClassification"]
    swallowed,        \* rejections that reached a trigger source's catch
    unhandled,        \* rejections that no handler took
    direct,           \* the latest call of an exported classifier made
                      \* from outside the scheduler
    directHunk,       \* the latest call of classifyHunk
    cleaning,         \* the latest text handed to preprocessDiff and to
                      \* preprocessHunk, and what each returned
    workingCopy,      \* what `git diff` would write now, where the working
                      \* copy is followed; where it is not, a fetch may
                      \* meet any text
    burstText,        \* the working copy at the latest passive save
    budget            \* the number of cycles the behaviour may start

\* what the scheduler does not write: the functions called from outside
\* it, the working copy and the number of cycles looked at
outside == <<direct, directHunk, cleaning, workingCopy, budget>>

vars == <<started, intervalTimer, debounceTimer, debounceLeft, burst,
          strayTimeouts, running, pending, lastFingerprint, coalesced,
          nCycles, cycle, published, persisted, swallowed, unhandled,
          direct, directHunk, cleaning, workingCopy, burstText, budget>>

debounce == <<debounceTimer, debounceLeft, burst, strayTimeouts, burstText>>
timers == <<started, intervalTimer, debounce>>
slot == <<running, pending, coalesced, nCycles>>
handlers == <<swallowed, unhandled>>

\* the cycles of a behaviour, which is given MaxCycles of them to start,
\* or one more where three cycles in a row are looked at
CycleIds == 1..(MaxCycles + 1)
Undefined == "undefined"
\* the values standing for undefined in a field that else holds a digest
\* or a FinalClassification
NoFingerprint == <<Undefined>>
NoResult == [label |-> Undefined, confidence |-> 0, reasoning |-> ""]
NoOutcome == [reasoning |-> "", result |-> FALSE, confidence |-> 0]
NoCall == [st |-> "none", response |-> NoResponse, out |-> NoOutcome]
NoCalls == [i \in 1..3 |-> NoCall]

\* no exported classifier has been called from outside
NoDirect ==
    [label |-> Undefined, diffContent |-> <<>>, cleanedDiff |-> <<>>,
     response |-> NoResponse, out |-> NoOutcome]

\* a cycle that has not begun
Unborn ==
    [pc |-> "unborn", parent |-> 0, caught |-> FALSE, failedBefore |-> FALSE,
     fetch |-> "none", raw |-> <<>>, cleaned |-> <<>>, calls |-> NoCalls,
     end |-> "none"]

\* a cycle that ended before the previous cycle began: what it did is no
\* longer kept
Past ==
    [pc |-> "ended", parent |-> 0, caught |-> FALSE, failedBefore |-> FALSE,
     fetch |-> "none", raw |-> <<>>, cleaned |-> <<>>, calls |-> NoCalls,
     end |-> "past"]

NoDirectHunk ==
    [classification |-> Undefined, hunk |-> <<>>, cleanedHunk |-> <<>>,
     response |-> [kind |-> "none", reasoning |-> "", relevant |-> FALSE,
                   confidence |-> 0, wrong |-> {}],
     out |-> [reasoning |-> "", relevant |-> FALSE, confidence |-> 0]]
\* stands for the text of a working copy that is not followed
Unwatched == <<Undefined>>
NoCleaning ==
    [called |-> FALSE, lines |-> <<>>, raw |-> <<>>, diff |-> <<>>,
     sent |-> <<>>, hunk |-> <<>>]

\* the state after construction, whatever is about to be cleaned
Constructed ==
    /\ started = FALSE
    /\ intervalTimer = Undefined
    /\ debounceTimer = Undefined
    /\ debounceLeft = 0
    /\ burst = 0
    /\ strayTimeouts = 0
    /\ running = 0
    /\ pending = FALSE
    /\ lastFingerprint = NoFingerprint
    /\ coalesced = 0
    /\ nCycles = 0
    /\ cycle = [k \in CycleIds |-> Unborn]
    /\ published = <<>>
    /\ persisted = NoResult
    /\ swallowed = 0
    /\ unhandled = 0
    /\ direct = NoDirect
    /\ directHunk = NoDirectHunk
    /\ burstText = Unwatched

\* the working copy is not followed: every fetch may meet any text
Init ==
    /\ Constructed
    /\ cleaning = NoCleaning
    /\ workingCopy = Unwatched
    /\ budget = MaxCycles

(* ------------------------- trigger() and finally ---------------------- *)

InFlight(k) == cycle[k].pc \in {"fetch", "classify", "persist"}
ErrorEnds == {"classifierError", "publishError", "persistError"}

\* a trigger() without the guard
NeverBusy(r) == FALSE

\* the guard of trigger(): if (this.running)
Busy(r) == r # 0

\* a source that calls trigger() without a catch
CatchesNothing(origin) == FALSE

\* every trigger source calls trigger().catch(() => { })
SourceCatches(origin) == origin \in {"interval", "manual", "debounce"}

\* a trigger is only taken while the behaviour has a cycle left for it
HasBudget ==
    IF Busy(running) THEN pending \/ nCycles < budget
    ELSE nCycles < budget

\* the async body up to its first await: the fetch is under way.  The
\* trigger() call of a source awaits the promise of the body it begins, and
\* a body awaits, in its finally block, the promise of the rerun it begins:
\* so the source's call rejects when some body of the chain threw, which the
\* newest body of the chain records in failedBefore.  The table keeps what
\* the running cycle and the one before it did.
BeginCycle(cyc, n, origin, parent) ==
    [j \in CycleIds |->
        IF j = n
        THEN [pc |-> "fetch", parent |-> parent,
              caught |-> IF parent = 0 THEN SourceCatches(origin)
                         ELSE cyc[parent].caught,
              failedBefore |-> IF parent = 0 THEN FALSE
                               ELSE \/ cyc[parent].failedBefore
                                    \/ cyc[parent].end \in ErrorEnds,
              fetch |-> "none", raw |-> <<>>, cleaned |-> <<>>,
              calls |-> NoCalls, end |-> "none"]
        ELSE IF j < n - 1 /\ cyc[j].pc = "ended" THEN Past
        ELSE cyc[j]]

\* the if-branch of the finally block: this.pending = <flag>;
\* await this.trigger(), which finds the slot empty and begins a cycle
Rerun(k, ended, flag) ==
    /\ pending' = flag
    /\ nCycles' = nCycles + 1
    /\ running' = nCycles + 1
    /\ cycle' = BeginCycle(ended, nCycles + 1, "rerun", k)
    /\ UNCHANGED handlers

\* the finally block falls through: the promises up to the source's
\* trigger() call settle, and its catch takes a rejection
Release(k, ended) ==
    LET rejected == ended[k].failedBefore \/ ended[k].end \in ErrorEnds
        caught == ended[k].caught
    IN  /\ running' = 0
        /\ cycle' = ended
        /\ swallowed' = swallowed + (IF rejected /\ caught THEN 1 ELSE 0)
        /\ unhandled' = unhandled + (IF rejected /\ ~caught THEN 1 ELSE 0)
        /\ UNCHANGED <<pending, nCycles>>

\* a finally block without the if: the slot is freed, this.pending stays
FinallyIgnoresPending(k, how, cyc) ==
    LET ended == [cyc EXCEPT ![k].pc = "ended", ![k].end = how] IN
    /\ coalesced' = 0
    /\ Release(k, ended)

\* a finally block that clears this.pending and starts nothing
FinallyForgetsRerun(k, how, cyc) ==
    LET ended == [cyc EXCEPT ![k].pc = "ended", ![k].end = how] IN
    /\ coalesced' = 0
    /\ running' = 0
    /\ pending' = FALSE
    /\ cycle' = ended
    /\ UNCHANGED <<nCycles, handlers>>

\* a finally block that leaves this.pending set
FinallyKeepsPending(k, how, cyc) ==
    LET ended == [cyc EXCEPT ![k].pc = "ended", ![k].end = how] IN
    /\ coalesced' = 0
    /\ IF pending THEN Rerun(k, ended, TRUE) ELSE Release(k, ended)

\* a rerun placed after the body instead of in a finally block
FinallyLosesOnError(k, how, cyc) ==
    LET ended == [cyc EXCEPT ![k].pc = "ended", ![k].end = how] IN
    /\ coalesced' = 0
    /\ IF pending /\ how \notin ErrorEnds
       THEN Rerun(k, ended, FALSE)
       ELSE Release(k, ended)

\* a body that frees the slot after the try block instead of in a finally
\* block: an error leaves this.running set
FinallyOnlyOnSuccess(k, how, cyc) ==
    LET ended == [cyc EXCEPT ![k].pc = "ended", ![k].end = how] IN
    IF how \in ErrorEnds
    THEN /\ cycle' = ended
         /\ swallowed' = swallowed + 1
         /\ UNCHANGED <<running, pending, coalesced, nCycles, unhandled>>
    ELSE /\ coalesced' = 0
         /\ IF pending THEN Rerun(k, ended, FALSE) ELSE Release(k, ended)

\* the finally block of cycle k, whose body ended the way `how` says;
\* cyc is the cycle table as the body left it:
\* this.running = undefined; if (this.pending) { ... }
Finally(k, how, cyc) ==
    LET ended == [cyc EXCEPT ![k].pc = "ended", ![k].end = how] IN
    /\ coalesced' = 0
    /\ IF pending THEN Rerun(k, ended, FALSE) ELSE Release(k, ended)

\* trigger() called by a source
trigger(origin) ==
    /\ HasBudget
    /\ IF Busy(running)
       THEN /\ pending' = TRUE
            /\ coalesced' = IF coalesced < 2 THEN coalesced + 1 ELSE 2
            /\ UNCHANGED <<running, nCycles, cycle>>
       ELSE /\ nCycles' = nCycles + 1
            /\ running' = nCycles + 1
            /\ cycle' = BeginCycle(cycle, nCycles + 1, origin, 0)
            /\ UNCHANGED <<pending, coalesced>>
    /\ UNCHANGED <<lastFingerprint, published, persisted, handlers>>

(* ------------------------------- sources ------------------------------ *)

\* scheduleDebounced(60_000): the window, in ticks of the clock
DebounceWindow == 2

\* a clearInterval that does nothing
LeavesInterval(timer) == timer

\* clearInterval: an armed timer is cleared, any other is left as it is
clearInterval(timer) == IF timer = "armed" THEN "cleared" ELSE timer

\* a clearTimeout that does nothing
LeavesTimeout(timer) == timer

\* clearTimeout: an armed timeout is cleared, one that fired is left
clearTimeout(timer) == IF timer = "armed" THEN "cleared" ELSE timer

Start ==
    /\ ~started
    /\ started' = TRUE
    /\ intervalTimer' = "armed"
    /\ UNCHANGED <<debounce, slot, lastFingerprint, cycle, published,
                   persisted, handlers, outside>>

IntervalFire ==
    /\ intervalTimer = "armed"
    /\ trigger("interval")
    /\ UNCHANGED <<timers, outside>>

\* a listener that clears the timeout before it calls trigger()
ManualSaveCancels ==
    /\ started
    /\ trigger("manual")
    /\ debounceTimer' = IF debounceTimer # Undefined
                        THEN clearTimeout(debounceTimer)
                        ELSE debounceTimer
    /\ UNCHANGED <<started, intervalTimer, debounceLeft, burst,
                   strayTimeouts, burstText, outside>>

\* a save whose reason is Manual: void this.trigger().catch(() => { })
ManualSave ==
    /\ started
    /\ trigger("manual")
    /\ UNCHANGED <<timers, outside>>

\* a save that is not manual: scheduleDebounced(60_000) clears the timeout
\* the field refers to and sets a new one
PassiveSave ==
    /\ started
    /\ LET old == IF debounceTimer # Undefined
                  THEN clearTimeout(debounceTimer)
                  ELSE debounceTimer
       IN  strayTimeouts' = strayTimeouts + (IF old = "armed" THEN 1 ELSE 0)
    /\ debounceTimer' = "armed"
    /\ debounceLeft' = DebounceWindow
    /\ burst' = IF debounceTimer = "armed"
                THEN (IF burst < 2 THEN burst + 1 ELSE 2)
                ELSE 1
    /\ burstText' = workingCopy
    /\ UNCHANGED <<started, intervalTimer, slot, lastFingerprint, cycle,
                   published, persisted, handlers, outside>>

\* time passes while a timeout is armed and not yet due
Tick ==
    /\ debounceTimer = "armed"
    /\ debounceLeft > 0
    /\ debounceLeft' = debounceLeft - 1
    /\ UNCHANGED <<started, intervalTimer, debounceTimer, burst,
                   strayTimeouts, burstText, slot, lastFingerprint, cycle, published,
                   persisted, handlers, outside>>

\* the callback of the timeout, which is due
DebounceFire ==
    /\ debounceTimer = "armed"
    /\ debounceLeft = 0
    /\ debounceTimer' = "fired"
    /\ trigger("debounce")
    /\ UNCHANGED <<started, intervalTimer, debounceLeft, burst,
                   strayTimeouts, burstText, outside>>

\* dispose() with a timer to clear (without one it changes nothing)
dispose ==
    /\ intervalTimer = "armed" \/ debounceTimer = "armed"
    /\ intervalTimer' = IF intervalTimer # Undefined
                        THEN clearInterval(intervalTimer)
                        ELSE intervalTimer
    /\ debounceTimer' = IF debounceTimer # Undefined
                        THEN clearTimeout(debounceTimer)
                        ELSE debounceTimer
    /\ debounceLeft' = 0
    /\ burst' = 0
    /\ UNCHANGED <<started, strayTimeouts, burstText, slot, lastFingerprint, cycle,
                   published, persisted, handlers, outside>>

(* ----------------------------- cycle body ----------------------------- *)

\* a body without the empty-text return
NeverBlank(cleaned) == FALSE

\* if (!cleaned.trim()) return;
IsBlank(cleaned) == Trim(cleaned) = <<>>

\* a body that compares the fingerprint with nothing
NeverSame(fp, last) == FALSE

\* if (fp === this.lastFingerprint) return;
SameFingerprint(fp, last) == fp = last

\* Promise.all over the three calls: fulfilled when all are, rejected with
\* the first rejection
FanOutFulfilled(cs) == \A i \in 1..3 : cs[i].st = "resolved"
FanOutRejected(cs) == \E i \in 1..3 : cs[i].st = "rejected"

\* once the body has ended nothing names the calls or their outcomes any
\* more: they are kept as three promises, the rejected before the resolved
\* before the unsettled
Forget(cs) ==
    LET nRejected == Cardinality({i \in 1..3 : cs[i].st = "rejected"})
        nResolved == Cardinality({i \in 1..3 : cs[i].st = "resolved"})
    IN  [i \in 1..3 |->
            [st |-> IF i <= nRejected THEN "rejected"
                    ELSE IF i <= nRejected + nResolved THEN "resolved"
                    ELSE "pending",
             response |-> NoResponse, out |-> NoOutcome]]

\* how getWorkingDiffText can go: git's output is read, no workspace
\* folder is open, or execFile reports an error
FetchOutcomes == {"ok", "noFolder", "gitError"}
FetchFailures == {"noFolder", "gitError"}

\* a fetch that hands on what git wrote whatever the outcome
getWorkingDiffTextAnyway(outcome, stdout) == stdout

\* getWorkingDiffText: "" without a folder or when git failed, git's
\* output otherwise
getWorkingDiffText(outcome, stdout) ==
    IF outcome = "ok" THEN stdout ELSE <<>>

\* what `git diff` can write when it is run now
WorkingTexts == IF workingCopy = Unwatched THEN RawDiffs ELSE {workingCopy}

\* getWorkingDiffText resolved in one of the ways `outcomes`.  The body
\* then runs to the fan-out or to its end.
FetchDoneWith(k, outcomes) ==
    /\ cycle[k].pc = "fetch"
    /\ \E outcome \in outcomes, workingDiff \in WorkingTexts :
        LET rawDiff == getWorkingDiffText(outcome, workingDiff)
            cleaned == preprocessDiff(rawDiff)
            fp == sha256(cleaned)
            cyc == [cycle EXCEPT ![k].fetch = outcome, ![k].raw = rawDiff,
                                 ![k].cleaned = cleaned]
        IN  IF IsBlank(cleaned)
            THEN /\ Finally(k, "empty", cyc)
                 /\ UNCHANGED lastFingerprint
            ELSE IF SameFingerprint(fp, lastFingerprint)
            THEN /\ Finally(k, "dedup", cyc)
                 /\ UNCHANGED lastFingerprint
            ELSE /\ lastFingerprint' = fp
                 /\ cycle' = [cyc EXCEPT
                        ![k].pc = "classify",
                        ![k].calls = [i \in 1..3 |->
                            [st |-> "pending", response |-> NoResponse,
                             out |-> NoOutcome]]]
                 /\ UNCHANGED <<slot, handlers>>
    /\ UNCHANGED <<timers, published, persisted, outside>>

FetchDone(k) == FetchDoneWith(k, FetchOutcomes)

\* ollama.generate of call i of cycle k rejected
ClassifierReject(k, i) ==
    /\ cycle[k].calls[i].st = "pending"
    /\ LET cs == [cycle[k].calls EXCEPT ![i].st = "rejected"] IN
        IF cycle[k].pc = "classify"
        THEN IF FanOutRejected(cs)
             THEN Finally(k, "classifierError",
                          [cycle EXCEPT ![k].calls = Forget(cs)])
             ELSE /\ cycle' = [cycle EXCEPT ![k].calls = cs]
                  /\ UNCHANGED <<slot, handlers>>
        ELSE /\ cycle' = [cycle EXCEPT ![k].calls = Forget(cs)]
             /\ UNCHANGED <<slot, handlers>>
    /\ UNCHANGED <<timers, lastFingerprint, published, persisted, outside>>

\* a callback whose calls are recorded newest first
publishFirst(calls, k, finalResult) ==
    <<[cycle |-> k, result |-> finalResult]>> \o calls

\* a body that calls the callback twice
publishTwice(calls, k, finalResult) ==
    calls \o <<[cycle |-> k, result |-> finalResult],
               [cycle |-> k, result |-> finalResult]>>

\* this.publish(finalResult): one more call of the callback
publish(calls, k, finalResult) ==
    Append(calls, [cycle |-> k, result |-> finalResult])

\* ollama.generate of call i of cycle k resolved with a response from R;
\* when the fan-out is through, the body arbitrates, publishes and starts
\* the persistence write
ClassifierResolveFrom(R, k, i) ==
    /\ cycle[k].calls[i].st = "pending"
    /\ \E response \in R, publishThrows \in BOOLEAN :
        LET cs == [cycle[k].calls EXCEPT
                      ![i] = [st |-> "resolved", response |-> response,
                              out |-> runClassifier(response)]]
            outs == [j \in 1..3 |-> cs[j].out]
        IN  IF cycle[k].pc = "classify"
            THEN IF FanOutFulfilled(cs)
                 THEN /\ published' = publish(published, k, FinalResult(outs))
                      /\ IF publishThrows
                         THEN Finally(k, "publishError",
                                      [cycle EXCEPT ![k].calls = Forget(cs)])
                         ELSE /\ cycle' = [cycle EXCEPT
                                              ![k].pc = "persist",
                                              ![k].calls = cs]
                              /\ UNCHANGED <<slot, handlers>>
                 ELSE /\ ~publishThrows
                      /\ cycle' = [cycle EXCEPT ![k].calls = cs]
                      /\ UNCHANGED <<slot, published, handlers>>
            ELSE /\ ~publishThrows
                 /\ cycle' = [cycle EXCEPT ![k].calls = Forget(cs)]
                 /\ UNCHANGED <<slot, published, handlers>>
    /\ UNCHANGED <<timers, lastFingerprint, persisted, outside>>

ClassifierResolve(k, i) == ClassifierResolveFrom(FewResponses(i), k, i)

PublishedBy(k) == SelectSeq(published, LAMBDA p : p.cycle = k)

\* a write that resolves and stores nothing
updateNothing(stored, finalResult) == stored

\* globalState.update("committed.lastClassification", finalResult)
\* resolved: the key holds finalResult
update(stored, finalResult) == finalResult

\* globalState.update("committed.lastClassification", finalResult) of
\* cycle k settled
PersistDone(k) ==
    /\ cycle[k].pc = "persist"
    /\ \E written \in BOOLEAN :
        LET cyc == [cycle EXCEPT ![k].calls = Forget(cycle[k].calls)] IN
        IF written
        THEN /\ persisted' = update(persisted, PublishedBy(k)[1].result)
             /\ Finally(k, "published", cyc)
        ELSE /\ UNCHANGED persisted
             /\ Finally(k, "persistError", cyc)
    /\ UNCHANGED <<timers, lastFingerprint, published, outside>>

(* ---------------------------- specification --------------------------- *)

Next ==
    \/ Start
    \/ IntervalFire
    \/ ManualSave
    \/ PassiveSave
    \/ Tick
    \/ DebounceFire
    \/ dispose
    \/ \E k \in CycleIds : FetchDone(k)
    \/ \E k \in CycleIds, i \in 1..3 : ClassifierReject(k, i)
    \/ \E k \in CycleIds, i \in 1..3 : ClassifierResolve(k, i)
    \/ \E k \in CycleIds : PersistDone(k)

Spec == Init /\ [][Next]_vars

\* one cycle, started by a manual save, whose classifiers may answer
\* anything: the setting in which the arbitration is examined
FirstManualSave == nCycles = 0 /\ ManualSave

NextArbitration ==
    \/ Start
    \/ FirstManualSave
    \/ FetchDone(1)
    \/ \E i \in 1..3 : ClassifierResolveFrom(Responses, 1, i)
    \/ PersistDone(1)

SpecArbitration == Init /\ [][NextArbitration]_vars

\* classifyAsBugFix, classifyAsFeature or classifyAsRefactoring called with
\* any text, as the tests call them: the text is cleaned and sent with the
\* prompt of the category, and the response of the model is parsed
classify(label, diffContent, response) ==
    [label |-> label, diffContent |-> diffContent,
     cleanedDiff |-> preprocessDiff(diffContent),
     response |-> response, out |-> runClassifier(response)]

DirectClassify ==
    /\ \E i \in 1..3, diffContent \in RawDiffs, response \in Responses :
        direct' = classify(Labels[i], diffContent, response)
    /\ UNCHANGED <<timers, slot, lastFingerprint, cycle, published,
                   persisted, handlers, directHunk, cleaning, workingCopy,
                   budget>>

SpecClassifier == Init /\ [][DirectClassify]_vars

\* classifyHunk called with one of the three classifications: the hunk
\* is cleaned, generate() resolves, the response is parsed
DirectClassifyHunk ==
    /\ \E classification \in HunkClassifications, hunk \in RawHunks,
          response \in HunkResponses :
        directHunk' = [classification |-> classification, hunk |-> hunk,
                       cleanedHunk |-> preprocessHunk(hunk),
                       response |-> response,
                       out |-> classifyHunk(response)]
    /\ UNCHANGED <<timers, slot, lastFingerprint, cycle, published,
                   persisted, handlers, direct, cleaning, workingCopy,
                   budget>>

SpecHunk == Init /\ [][DirectClassifyHunk]_vars

\* a text of up to MaxLines lines is about to be cleaned
InitClean ==
    /\ Constructed
    /\ cleaning \in {[called |-> FALSE, lines |-> lines,
                       raw |-> Join(lines), diff |-> <<>>,
                       sent |-> <<>>, hunk |-> <<>>] :
                          lines \in LineSeqs}
    /\ workingCopy = Unwatched
    /\ budget = MaxCycles

\* the text is handed to both cleaning functions; what preprocessDiff
\* made of it is handed, as the scheduler hands it, to runClassifier,
\* which cleans it again before sending it
Clean ==
    /\ cleaning' = [cleaning EXCEPT
                        !.called = TRUE,
                        !.diff = preprocessDiff(cleaning.raw),
                        !.sent = preprocessDiff(preprocessDiff(cleaning.raw)),
                        !.hunk = preprocessHunk(cleaning.raw)]
    /\ UNCHANGED <<timers, slot, lastFingerprint, cycle, published,
                   persisted, handlers, direct, directHunk, workingCopy,
                   budget>>

SpecClean == InitClean /\ [][Clean]_vars

\* the texts of a working copy that is followed: no change, and two
\* different changes
WatchedTexts == {EmptyDiff, DiffA, DiffB}

\* the working copy is followed: it holds one of the texts, and a fetch
\* meets the text it holds when git is run
InitWatched ==
    /\ Constructed
    /\ cleaning = NoCleaning
    /\ workingCopy \in WatchedTexts
    /\ budget = MaxCycles

\* the user changes the working copy
Edit ==
    /\ workingCopy # Unwatched
    /\ workingCopy' \in WatchedTexts \ {workingCopy}
    /\ UNCHANGED <<timers, slot, lastFingerprint, cycle, published,
                   persisted, handlers, direct, directHunk, cleaning,
                   budget>>

\* passive saves and the cycles their timeouts start, up to the fan-out,
\* while the working copy changes
NextDebounce ==
    \/ Start
    \/ PassiveSave
    \/ Tick
    \/ DebounceFire
    \/ Edit
    \/ \E k \in CycleIds : FetchDone(k)

SpecDebounce == InitWatched /\ [][NextDebounce]_vars

\* manual saves and the cycles they start, while the working copy changes
NextServed ==
    \/ Start
    \/ ManualSave
    \/ Edit
    \/ \E k \in CycleIds : FetchDone(k)
    \/ \E k \in CycleIds, i \in 1..3 : ClassifierReject(k, i)
    \/ \E k \in CycleIds, i \in 1..3 : ClassifierResolve(k, i)
    \/ \E k \in CycleIds : PersistDone(k)

\* what the event loop does for a cycle sooner or later: the fetch, each
\* classifier call and the persistence write settle.  A call can resolve
\* and reject exactly while it is unsettled, and a fetch can fail and
\* succeed exactly while it is under way: that none stays unsettled for
\* ever is said with the rejection and with the failure alone.
Settle ==
    \/ \E k \in CycleIds : FetchDoneWith(k, FetchFailures)
    \/ \E k \in CycleIds, i \in 1..3 : ClassifierReject(k, i)
    \/ \E k \in CycleIds : PersistDone(k)

SpecServed == InitWatched /\ [][NextServed]_vars /\ WF_vars(Settle)

\* three cycles in a row are looked at, each begun by a manual save or as
\* a rerun; the working copy is not followed
InitDedup ==
    /\ Constructed
    /\ cleaning = NoCleaning
    /\ workingCopy = Unwatched
    /\ budget = MaxCycles + 1

NextDedup ==
    \/ Start
    \/ ManualSave
    \/ \E k \in CycleIds : FetchDone(k)
    \/ \E k \in CycleIds, i \in 1..3 : ClassifierReject(k, i)
    \/ \E k \in CycleIds, i \in 1..3 : ClassifierResolve(k, i)
    \/ \E k \in CycleIds : PersistDone(k)

SpecDedup == InitDedup /\ [][NextDedup]_vars

\* the save listener alone: manual and passive saves, the timeout, and
\* the cycles up to the fan-out
NextSaves ==
    \/ Start
    \/ ManualSave
    \/ PassiveSave
    \/ Tick
    \/ DebounceFire
    \/ \E k \in CycleIds : FetchDone(k)

SpecSaves == Init /\ [][NextSaves]_vars

(* ------------------------------- claims ------------------------------- *)

InFlightCycles == {k \in CycleIds : InFlight(k)}
Ends(k) == InFlight(k) /\ cycle'[k].pc = "ended"
Issued(k) == \E i \in 1..3 : cycle[k].calls[i].st # "none"
Unsettled(k) == \E i \in 1..3 : cycle[k].calls[i].st = "pending"
Fetched(k) == cycle[k].pc \notin {"unborn", "fetch"}

\* C1: at most one cycle body is in flight, and it is the one this.running
\* stands for; no trigger starts a body while another has not ended.
SingleFlightThm ==
    /\ Cardinality(InFlightCycles) <= 1
    /\ InFlightCycles = IF running = 0 THEN {} ELSE {running}

SingleFlightWitness ==
    /\ pending
    /\ coalesced >= 2
    /\ InFlightCycles = {running}
    /\ debounceTimer = "fired"
    /\ intervalTimer = "armed"

\* C2: however many trigger() calls (N >= 1) returned early while a cycle
\* was running, the end of that cycle starts exactly one cycle; with none
\* (as at the end of a follow-up during which no call arrived) it starts
\* none.
CoalescingThm ==
    [][\A k \in CycleIds :
        Ends(k) =>
            /\ nCycles' = nCycles + (IF coalesced >= 1 THEN 1 ELSE 0)
            /\ coalesced' = 0]_vars

CoalescingWitness ==
    /\ coalesced >= 2
    /\ pending
    /\ running # 0
    /\ InFlight(running)

\* C3: a cycle that ends while the pending flag is set, however it ends,
\* clears the flag and starts exactly one new cycle in the same step.
NoLostRequestThm ==
    [][\A k \in CycleIds :
        (Ends(k) /\ pending) =>
            /\ pending' = FALSE
            /\ nCycles' = nCycles + 1
            /\ running' = nCycles'
            /\ cycle'[nCycles'].pc = "fetch"
            /\ cycle'[nCycles'].parent = k]_vars

NoLostRequestWitness ==
    \E c \in CycleIds :
        /\ cycle[c].parent # 0
        /\ cycle[cycle[c].parent].end = "classifierError"
        /\ ~pending

\* C4 (as claimed): a cycle that has issued its classifier calls never
\* coexists with an unsettled classifier call of an earlier cycle.
NoInterleavedCalls ==
    \A k1, k2 \in CycleIds :
        (k1 < k2 /\ Issued(k2)) => ~Unsettled(k1)

\* C5 (as claimed): a cycle of which one classifier call resolved and
\* another rejected, all three being settled, has published.
PartialFailureTolerated ==
    \A k \in CycleIds :
        (/\ \E i \in 1..3 : cycle[k].calls[i].st = "resolved"
         /\ \E i \in 1..3 : cycle[k].calls[i].st = "rejected"
         /\ ~Unsettled(k))
        => PublishedBy(k) # <<>>

\* C6 (as claimed): a cycle that has ended has no unsettled classifier
\* call.
FanOutWaitsForAll ==
    \A k \in CycleIds : cycle[k].pc = "ended" => ~Unsettled(k)

\* C7: a classifier rejection that ends a cycle publishes and persists
\* nothing, leaves no rejection unhandled, leaves the interval timer as it
\* was and frees the slot (for the rerun if one is pending); a cycle of
\* which all three calls rejected has ended in error and never published.
TotalFailureThm ==
    /\ [](\A k \in CycleIds :
            (\A i \in 1..3 : cycle[k].calls[i].st = "rejected") =>
                /\ cycle[k].end = "classifierError"
                /\ PublishedBy(k) = <<>>
                /\ unhandled = 0)
    /\ [][\A k \in CycleIds :
            (cycle[k].pc = "classify" /\ cycle'[k].end = "classifierError") =>
                /\ published' = published
                /\ persisted' = persisted
                /\ unhandled' = 0
                /\ intervalTimer' = intervalTimer
                /\ IF pending
                   THEN running' # 0 /\ cycle'[running'].pc = "fetch"
                   ELSE running' = 0 /\ swallowed' = swallowed + 1]_vars

TotalFailureWitness ==
    \E k \in CycleIds :
        /\ \A i \in 1..3 : cycle[k].calls[i].st = "rejected"
        /\ swallowed >= 1
        /\ intervalTimer = "armed"
        /\ nCycles > k

PublishEnds == {"published", "publishError", "persistError"}
SameTextTwice(k) ==
    /\ k + 1 \in CycleIds
    /\ cycle[k].pc = "ended"
    /\ Fetched(k + 1)
    /\ cycle[k].cleaned # <<>>
    /\ cycle[k + 1].cleaned = cycle[k].cleaned

EmptyInputThm ==
    [][\A k \in CycleIds :
        (/\ cycle[k].pc = "fetch"
         /\ cycle'[k].pc # "fetch"
         /\ \/ cycle'[k].raw = <<>>
            \/ Trim(cycle'[k].cleaned) = <<>>)
        => /\ cycle'[k].end = "empty"
           /\ cycle'[k].calls = cycle[k].calls
           /\ published' = published
           /\ persisted' = persisted
           /\ lastFingerprint' = lastFingerprint
           /\ unhandled' = unhandled]_vars

EmptyInputWitness ==
    \E k1, k2 \in CycleIds :
        /\ cycle[k1].end = "empty"
        /\ cycle[k1].raw = EmptyDiff
        /\ cycle[k2].end = "empty"
        /\ cycle[k2].raw = IndexOnlyDiff

\* C10: when at least one of the three verdicts is true, the published
\* result carries the label, confidence and reasoning of a true outcome
\* whose confidence no other true outcome exceeds.
ArbitrationWithCandidatesThm ==
    \A k \in CycleIds :
        cycle[k].pc = "persist" =>
            LET outs == [i \in 1..3 |-> cycle[k].calls[i].out]
                trues == {i \in 1..3 : outs[i].result}
                res == PublishedBy(k)[1].result
            IN  trues # {} =>
                    \E i \in trues :
                        /\ \A j \in trues :
                               outs[j].confidence <= outs[i].confidence
                        /\ res.label = Labels[i]
                        /\ res.confidence = outs[i].confidence
                        /\ res.reasoning = outs[i].reasoning

ArbitrationWithCandidatesWitness ==
    \E k \in CycleIds :
        /\ cycle[k].pc = "persist"
        /\ PublishedBy(k)[1].result.label = "Refactor"
        /\ cycle[k].calls[3].out.result
        /\ ~cycle[k].calls[1].out.result
        /\ cycle[k].calls[1].out.confidence > cycle[k].calls[3].out.confidence
        /\ cycle[k].calls[1].out.reasoning # cycle[k].calls[3].out.reasoning

\* the outcomes of cycle k, the true verdicts among them, the outcomes the
\* arbitration chooses from and those of the highest confidence among these
OutsOf(k) == [i \in 1..3 |-> cycle[k].calls[i].out]
TruesOf(k) == {i \in 1..3 : OutsOf(k)[i].result}
EligibleOf(k) == IF TruesOf(k) # {} THEN TruesOf(k) ELSE 1..3
TopOf(k) ==
    {i \in EligibleOf(k) :
        \A j \in EligibleOf(k) :
            OutsOf(k)[j].confidence <= OutsOf(k)[i].confidence}
FirstOf(k) == CHOOSE i \in TopOf(k) : \A j \in TopOf(k) : i <= j
ResultOf(k) == PublishedBy(k)[1].result

\* C11: when several eligible outcomes share the highest confidence, the
\* published result is that of the first of them in the order Bug Fix,
\* Feature, Refactor: its confidence and reasoning, and its label when a
\* verdict is true; so the result is a function of the three outcomes.
TieBreakThm ==
    \A k \in CycleIds :
        (cycle[k].pc = "persist" /\ Cardinality(TopOf(k)) >= 2) =>
            /\ ResultOf(k).confidence = OutsOf(k)[FirstOf(k)].confidence
            /\ ResultOf(k).reasoning = OutsOf(k)[FirstOf(k)].reasoning
            /\ ResultOf(k).label =
                   IF TruesOf(k) # {} THEN Labels[FirstOf(k)] ELSE "Unclear"

TieBreakWitness ==
    \E k \in CycleIds :
        /\ cycle[k].pc = "persist"
        /\ TruesOf(k) = {2, 3}
        /\ OutsOf(k)[2].confidence = OutsOf(k)[3].confidence
        /\ OutsOf(k)[1].confidence > OutsOf(k)[2].confidence
        /\ OutsOf(k)[2].reasoning # OutsOf(k)[3].reasoning
        /\ ResultOf(k).label = "Feature"
        /\ ResultOf(k).reasoning = OutsOf(k)[2].reasoning

\* C12: when the three verdicts are false, the published label is Unclear
\* and the published confidence and reasoning are those of the first, in
\* the order Bug Fix, Feature, Refactor, of the outcomes of the highest
\* confidence among all three.
UnclearThm ==
    \A k \in CycleIds :
        (cycle[k].pc = "persist" /\ TruesOf(k) = {}) =>
            /\ ResultOf(k).label = "Unclear"
            /\ \A j \in 1..3 :
                   OutsOf(k)[j].confidence <= ResultOf(k).confidence
            /\ \E i \in 1..3 :
                   /\ ResultOf(k).confidence = OutsOf(k)[i].confidence
                   /\ ResultOf(k).reasoning = OutsOf(k)[i].reasoning
                   /\ \A j \in 1..(i - 1) :
                          OutsOf(k)[j].confidence < OutsOf(k)[i].confidence

UnclearWitness ==
    \E k \in CycleIds :
        /\ cycle[k].pc = "persist"
        /\ TruesOf(k) = {}
        /\ OutsOf(k)[1].confidence < OutsOf(k)[2].confidence
        /\ OutsOf(k)[2].confidence = OutsOf(k)[3].confidence
        /\ OutsOf(k)[2].reasoning # OutsOf(k)[3].reasoning
        /\ ResultOf(k).label = "Unclear"
        /\ ResultOf(k).confidence = OutsOf(k)[2].confidence
        /\ ResultOf(k).reasoning = OutsOf(k)[2].reasoning

\* C13: every published result has one of the four labels and a
\* confidence from 0 to 1; when it is published, its label is a category
\* only if the classifier of that category answered true, and it is
\* Unclear exactly when none did.
PublishedValidThm ==
    /\ \A n \in 1..Len(published) :
        /\ published[n].result.label \in
               {"Bug Fix", "Feature", "Refactor", "Unclear"}
        /\ published[n].result.confidence >= 0
        /\ published[n].result.confidence <= MaxConf
    /\ \A k \in CycleIds :
        cycle[k].pc = "persist" =>
            /\ \A i \in 1..3 :
                   ResultOf(k).label = Labels[i] => OutsOf(k)[i].result
            /\ ResultOf(k).label = "Unclear" <=> TruesOf(k) = {}

PublishedValidWitness ==
    \E k \in CycleIds :
        /\ cycle[k].pc = "persist"
        /\ cycle[k].calls[1].response.confidence > MaxConf
        /\ cycle[k].calls[1].response.result
        /\ cycle[k].calls[1].response.kind = "json"
        /\ cycle[k].calls[2].out.result
        /\ cycle[k].calls[2].out.confidence < MaxConf
        /\ ResultOf(k).label = "Feature"

\* a response whose text is not JSON or whose object the schema refuses
IsMalformed(r) ==
    \/ r.kind = "text"
    \/ /\ r.kind = "json"
       /\ \/ r.wrong # {}
          \/ r.confidence < 0
          \/ r.confidence > MaxConf

\* C18: a classifier call whose response is not JSON or fails the schema
\* (key missing or of another type, confidence outside [0,1]) resolves with
\* result false, confidence 0 and the reasoning that names the parse
\* failure; and a cycle whose three calls resolved has published.
DegradedThm ==
    \A k \in CycleIds :
        /\ \A i \in 1..3 :
            IsMalformed(cycle[k].calls[i].response) =>
                /\ cycle[k].calls[i].st = "resolved"
                /\ cycle[k].calls[i].out.result = FALSE
                /\ cycle[k].calls[i].out.confidence = 0
                /\ cycle[k].calls[i].out.reasoning =
                       "Failed to parse LLM output."
        /\ (\A i \in 1..3 : cycle[k].calls[i].st = "resolved") =>
               Len(PublishedBy(k)) = 1

DegradedWitness ==
    \E k \in CycleIds :
        /\ cycle[k].pc = "persist"
        /\ cycle[k].calls[1].response.kind = "text"
        /\ cycle[k].calls[2].response.wrong = {"confidence"}
        /\ cycle[k].calls[3].response.confidence > MaxConf
        /\ ResultOf(k).label = "Unclear"
        /\ ResultOf(k).confidence = 0
        /\ ResultOf(k).reasoning = ParseFailure

ArmedTimeouts == strayTimeouts + (IF debounceTimer = "armed" THEN 1 ELSE 0)
TriggerIssued ==
    IF running = 0
    THEN nCycles' = nCycles + 1 /\ running' = nCycles'
    ELSE pending' /\ running' = running /\ nCycles' = nCycles

\* C14: at most one debounce timeout is armed at any time; a passive save
\* issues no trigger and restarts the window; the trigger of a burst is
\* issued by the timeout of its last save, when the window after that save
\* has elapsed, and once: after it the timeout is spent until a later
\* passive save opens a new burst.
DebounceThm ==
    /\ [](/\ ArmedTimeouts <= 1
          /\ debounceTimer = "armed" => burst >= 1)
    /\ [][/\ (debounceTimer' = "armed" /\ debounce' # debounce
                  /\ debounceLeft' = DebounceWindow)
              => /\ slot' = slot
                 /\ cycle' = cycle
                 /\ burst' = IF debounceTimer = "armed"
                             THEN (IF burst < 2 THEN burst + 1 ELSE 2)
                             ELSE 1
          /\ (debounceTimer' = "fired" /\ debounceTimer # "fired")
              => /\ debounceTimer = "armed"
                 /\ debounceLeft = 0
                 /\ burst' = burst
                 /\ TriggerIssued
          /\ (debounceTimer = "fired" /\ debounceTimer' # "fired")
              => /\ debounceTimer' = "armed"
                 /\ debounceLeft' = DebounceWindow
                 /\ burst' = 1
                 /\ slot' = slot
          /\ (debounceTimer = "armed" /\ debounceLeft' < debounceLeft)
              => slot' = slot /\ cycle' = cycle]_vars

DebounceWitness ==
    /\ debounceTimer = "fired"
    /\ burst = 2
    /\ nCycles = 1
    /\ running = 1
    /\ ~pending

\* a step of the body of cycle k: the fetch or the persistence write
\* settles, or a classifier call that is awaited does
BodyStep(k) ==
    \/ FetchDone(k)
    \/ \E i \in 1..3 : ClassifierReject(k, i)
    \/ PersistDone(k)

\* C15: dispose() leaves no timer armed and changes nothing of a cycle in
\* flight; a cleared timer never fires (the interval timer stays cleared,
\* the debounce field is only armed again by a later passive save), and a
\* cycle in flight after dispose() still has its next step.
DisposeThm ==
    /\ [](/\ intervalTimer = "cleared" => ~ENABLED IntervalFire
          /\ debounceTimer = "cleared" => ~ENABLED DebounceFire
          /\ \A k \in CycleIds :
                (intervalTimer = "cleared" /\ InFlight(k))
                    => ENABLED BodyStep(k))
    /\ [][/\ (\/ intervalTimer = "armed" /\ intervalTimer' = "cleared"
              \/ debounceTimer = "armed" /\ debounceTimer' = "cleared")
              => /\ intervalTimer' # "armed"
                 /\ debounceTimer' # "armed"
                 /\ strayTimeouts' = 0
                 /\ UNCHANGED <<slot, cycle, lastFingerprint, published,
                                persisted, handlers>>
          /\ intervalTimer = "cleared" => intervalTimer' = "cleared"
          /\ (debounceTimer = "cleared" /\ debounceTimer' # "cleared")
              => /\ debounceTimer' = "armed"
                 /\ debounceLeft' = DebounceWindow
                 /\ slot' = slot]_vars

DisposeWitness ==
    /\ intervalTimer = "cleared"
    /\ debounceTimer = "cleared"
    /\ running # 0
    /\ cycle[running].pc = "persist"
    /\ pending

LastEndedInError ==
    /\ nCycles >= 1
    /\ cycle[nCycles].end \in ErrorEnds

\* C16: a cycle that ends in an error (classifier rejection, publish
\* throwing, persistence write rejecting) gives up the slot in the same
\* step, to the rerun if one is pending; the rejection is taken by the
\* catch of the trigger source and the timers are left as they were; and
\* with the slot empty after such a cycle a trigger starts a new cycle.
NeverWedgedThm ==
    /\ [](/\ unhandled = 0
          /\ \A k \in CycleIds : cycle[k].end \in ErrorEnds => running # k
          /\ (LastEndedInError /\ running = 0 /\ nCycles < budget)
                => /\ ENABLED ManualSave
                   /\ intervalTimer = "armed" => ENABLED IntervalFire)
    /\ [][/\ \A k \in CycleIds :
                (Ends(k) /\ cycle'[k].end \in ErrorEnds) =>
                    /\ timers' = timers
                    /\ unhandled' = 0
                    /\ IF pending
                       THEN /\ running' = nCycles'
                            /\ nCycles' = nCycles + 1
                            /\ cycle'[running'].pc = "fetch"
                       ELSE /\ running' = 0
                            /\ swallowed' = swallowed + 1
          /\ (LastEndedInError /\ running = 0 /\ slot' # slot)
                => /\ nCycles' = nCycles + 1
                   /\ running' = nCycles'
                   /\ cycle'[running'].pc = "fetch"
                   /\ cycle'[running'].parent = 0]_vars

NeverWedgedWitness ==
    \E k \in CycleIds :
        /\ cycle[k].end = "persistError"
        /\ k + 1 \in CycleIds
        /\ cycle[k + 1].pc = "classify"
        /\ cycle[k + 1].parent = 0
        /\ swallowed = 1
        /\ intervalTimer = "armed"

\* C17 (as claimed): the latest cycle, when its classification failed,
\* has left lastFingerprint as it found it, which was another value than
\* the fingerprint of its own text.
FingerprintTracksSuccess ==
    \A k \in CycleIds :
        (k = nCycles /\ cycle[k].end = "classifierError")
            => lastFingerprint # sha256(cycle[k].cleaned)

\* C19 (as claimed): an exported classifier called with a text that cleans
\* to the empty string answers false with confidence 1 and the reasoning
\* "empty input".
EmptyInputFixedAnswer ==
    (direct.label # Undefined /\ direct.cleanedDiff = <<>>)
        => /\ direct.out.result = FALSE
           /\ direct.out.confidence = MaxConf
           /\ direct.out.reasoning = "empty input"

\* C20: whatever the text and the response, an exported classifier that
\* resolves returns a boolean result and a confidence from 0 to 1.
ClassifierRangeThm ==
    direct.label # Undefined
        => /\ direct.out.result \in BOOLEAN
           /\ direct.out.confidence >= 0
           /\ direct.out.confidence <= MaxConf

ClassifierRangeWitness ==
    /\ direct.label = "Refactor"
    /\ direct.diffContent = EmptyDiff
    /\ direct.response.kind = "json"
    /\ direct.response.confidence > MaxConf
    /\ direct.out.confidence = 0
    /\ direct.out.result = FALSE

\* C21 (as claimed): whatever the hunk, the classification and the
\* response, classifyHunk returns a reasoning that is not the empty string,
\* a boolean relevant and a confidence from 0 to 1.
HunkResultValid ==
    directHunk.classification # Undefined
        => /\ directHunk.out.reasoning # ""
           /\ directHunk.out.relevant \in BOOLEAN
           /\ directHunk.out.confidence >= 0
           /\ directHunk.out.confidence <= MaxConf

\* what the claims about the cleaning functions speak of, spelled out
\* on the characters of a line
BeginsWithMarker(line) ==
    /\ line # <<>>
    /\ \/ line[1] \in {"+", "-", " "}
       \/ Len(line) >= 2 /\ line[1] = "@" /\ line[2] = "@"
BeginsWithIndex(line) ==
    /\ Len(line) >= 6
    /\ SubSeq(line, 1, 6) = <<"i", "n", "d", "e", "x", " ">>
WhitespaceOnly(text) ==
    \A i \in 1..Len(text) : text[i] \in {" ", NL, "\t"}
\* a line that makes preprocessDiff answer with the sentinel when the loop
\* comes to it
IsBinaryLine(line) ==
    /\ ~BeginsWithIndex(line)
    /\ \/ StartsWith(line, BinaryPatchLine)
       \/ Includes(line, BinaryNoticeLine)
HeaderLines == {DiffGitLine, IndexLine, OldFileLine, NewFileLine}
RECURSIVE IsSubseq(_, _)
IsSubseq(a, b) ==
    \/ a = <<>>
    \/ /\ b # <<>>
       /\ IF Head(a) = Head(b) THEN IsSubseq(Tail(a), Tail(b))
          ELSE IsSubseq(a, Tail(b))
\* the lines ls without the whitespace-only lines at either end, the
\* first of the rest without its leading and the last without its
\* trailing white space
TrimmedEnds(ls) ==
    LET solid == {i \in 1..Len(ls) : ~WhitespaceOnly(ls[i])} IN
    IF solid = {} THEN <<>>
    ELSE LET a == CHOOSE i \in solid : \A j \in solid : i <= j
             b == CHOOSE i \in solid : \A j \in solid : i >= j
         IN  [i \in 1..(b - a + 1) |->
                 IF a = b THEN Trim(ls[a])
                 ELSE IF i = 1 THEN TrimStart(ls[a])
                 ELSE IF i = b - a + 1 THEN TrimEnd(ls[b])
                 ELSE ls[a + i - 1]]
NotIndexLine(line) == ~BeginsWithIndex(line)
DiffLinesOut == Split(cleaning.diff)
HunkLinesOut == Split(cleaning.hunk)

\* C22 (as claimed): a raw diff in which "GIT binary patch" or "Binary
\* files" occurs anywhere is cleaned to the sentinel.
BinaryAlwaysSentinel ==
    (/\ cleaning.called
     /\ \/ Includes(cleaning.raw, BinaryPatchLine)
        \/ Includes(cleaning.raw, BinaryNoticeLine))
        => cleaning.diff = BinarySentinel

\* C22 (amended): a raw diff with a line that does not begin with "index "
\* and that begins with "GIT binary patch" or contains "Binary files" is
\* cleaned to the sentinel, whatever the other lines and wherever the
\* line stands.
BinarySentinelThm ==
    (/\ cleaning.called
     /\ \E i \in 1..Len(cleaning.lines) : IsBinaryLine(cleaning.lines[i]))
        => cleaning.diff = BinarySentinel

BinarySentinelWitness ==
    /\ cleaning.called
    /\ cleaning.lines = <<AddedLine, IndexLine, BinaryPatchLine>>
    /\ cleaning.diff = BinarySentinel

\* C23 (as claimed): every line of a non-empty result of preprocessHunk
\* begins with "@@", " ", "+" or "-".
HunkLinesHaveMarkers ==
    (cleaning.called /\ cleaning.hunk # <<>>)
        => \A i \in 1..Len(HunkLinesOut) : BeginsWithMarker(HunkLinesOut[i])

\* C23 (amended): every line but the first of a non-empty result of
\* preprocessHunk begins with "@@", " ", "+" or "-"; the first does, or
\* is a context line of the hunk without its leading white space.
HunkMarkersThm ==
    (cleaning.called /\ cleaning.hunk # <<>>)
        => /\ \A i \in 2..Len(HunkLinesOut) :
                BeginsWithMarker(HunkLinesOut[i])
           /\ \/ BeginsWithMarker(HunkLinesOut[1])
              \/ \E j \in 1..Len(cleaning.lines) :
                    /\ cleaning.lines[j] # <<>>
                    /\ cleaning.lines[j][1] = " "
                    /\ HunkLinesOut[1] \in {TrimStart(cleaning.lines[j]),
                                            Trim(cleaning.lines[j])}

HunkMarkersWitness ==
    /\ cleaning.called
    /\ cleaning.lines = <<ContextIndexLine, DiffGitLine, AddedLine>>
    /\ cleaning.hunk = IndexLine \o <<NL>> \o AddedLine

\* C24 (as claimed): a file-header line ("diff --git", "index", "--- a/",
\* "+++ b/") that stands before the hunk header is not a line of the
\* result of preprocessHunk.
HunkHeadersStripped ==
    cleaning.called
        => \A i, j \in 1..Len(cleaning.lines) :
            (/\ i < j
             /\ cleaning.lines[i] \in HeaderLines
             /\ cleaning.lines[j] = HunkHeaderLine)
                => \A n \in 1..Len(HunkLinesOut) :
                        HunkLinesOut[n] # cleaning.lines[i]

\* C25 (as claimed): the lines of the raw hunk that begin with "@@", "+",
\* "-" or a space appear unchanged in the result, in their order.
HunkKeepsChangeLines ==
    cleaning.called
        => IsSubseq(SelectSeq(cleaning.lines, BeginsWithMarker),
                    HunkLinesOut)

\* C25 (amended): the result of preprocessHunk is made of the lines of the
\* raw hunk that begin with "@@", "+", "-" or a space, in their order,
\* without the whitespace-only ones at either end, the first without its
\* leading and the last without its trailing white space.
HunkKeepsThm ==
    cleaning.called
        => cleaning.hunk =
            Join(TrimmedEnds(SelectSeq(cleaning.lines, BeginsWithMarker)))

HunkKeepsWitness ==
    /\ cleaning.called
    /\ cleaning.lines = <<ContextIndexLine, AddedLine, BlankContextLine>>
    /\ cleaning.hunk = IndexLine \o <<NL>> \o AddedLine

\* C26 (as claimed): for a raw diff in which neither binary marker occurs,
\* no line of the result of preprocessDiff begins with "index ", and the
\* other lines of the input are lines of the result, in their order.
IndexLinesDropped ==
    (/\ cleaning.called
     /\ ~Includes(cleaning.raw, BinaryPatchLine)
     /\ ~Includes(cleaning.raw, BinaryNoticeLine))
        => /\ \A i \in 1..Len(DiffLinesOut) :
                ~BeginsWithIndex(DiffLinesOut[i])
           /\ IsSubseq(SelectSeq(cleaning.lines, NotIndexLine),
                       DiffLinesOut)

\* C26 (amended): for a raw diff without a line that is cleaned to the
\* sentinel, the result of preprocessDiff is made of the lines that do not
\* begin with "index ", in their order, without the whitespace-only ones
\* at either end, the first without its leading and the last without its
\* trailing white space; no line of the result but the first begins with
\* "index ".
IndexDroppedThm ==
    (/\ cleaning.called
     /\ \A i \in 1..Len(cleaning.lines) : ~IsBinaryLine(cleaning.lines[i]))
        => /\ cleaning.diff =
                Join(TrimmedEnds(SelectSeq(cleaning.lines, NotIndexLine)))
           /\ \A i \in 2..Len(DiffLinesOut) :
                ~BeginsWithIndex(DiffLinesOut[i])

IndexDroppedWitness ==
    /\ cleaning.called
    /\ cleaning.lines = <<IndexLine, AddedLine, EmptyLine>>
    /\ cleaning.diff = AddedLine

\* C27: a text that is empty or made of white space only is cleaned to the
\* empty string by preprocessDiff and by preprocessHunk, and both return
\* a string for every text.
BlankInputThm ==
    cleaning.called
        => /\ cleaning.diff \in Seq(STRING)
           /\ cleaning.hunk \in Seq(STRING)
           /\ WhitespaceOnly(cleaning.raw)
                => cleaning.diff = <<>> /\ cleaning.hunk = <<>>

BlankInputWitness ==
    /\ cleaning.called
    /\ cleaning.lines = <<BlankContextLine, EmptyLine, BlankContextLine>>
    /\ cleaning.raw = <<" ", NL, NL, " ">>
    /\ cleaning.diff = <<>>
    /\ cleaning.hunk = <<>>

\* C28: a cycle whose fetch fails (git reports an error, or no workspace
\* folder is open) ends right there as an empty-text cycle does: no
\* classifier is called, nothing is published or persisted,
\* lastFingerprint stays as it was, and the cycle raises no error: the
\* only rejection that its end can hand on is the one of a failed cycle
\* whose finally block started it.
FetchFailureThm ==
    [][\A k \in CycleIds :
        (cycle[k].pc = "fetch" /\ cycle'[k].fetch \in FetchFailures)
            => /\ cycle'[k].pc = "ended"
               /\ cycle'[k].end = "empty"
               /\ cycle'[k].calls = NoCalls
               /\ published' = published
               /\ persisted' = persisted
               /\ lastFingerprint' = lastFingerprint
               /\ unhandled' = unhandled
               /\ swallowed' # swallowed => cycle[k].failedBefore]_vars

FetchFailureWitness ==
    \E k \in CycleIds :
        /\ cycle[k].fetch = "gitError"
        /\ cycle[k].end = "empty"
        /\ k > 1
        /\ lastFingerprint = sha256(DiffB)
        /\ Len(published) = 1

\* C29: a cycle calls the callback once, in the step that ends its
\* fan-out and before the persistence write is begun, and no cycle that
\* produced no result calls it; the write, when it settles, leaves the
\* calls of the callback as they are; and when the write rejects, the
\* stored value stays as it was and the cycle ends as every cycle does:
\* the slot goes to the rerun if one is pending and is empty otherwise.
PublishBeforePersistThm ==
    /\ [](\A k \in CycleIds :
            /\ (\/ cycle[k].pc = "persist"
                \/ cycle[k].end \in {"published", "persistError",
                                     "publishError"})
                    => Len(PublishedBy(k)) = 1
            /\ (\/ cycle[k].pc \in {"fetch", "classify"}
                \/ cycle[k].end \in {"empty", "dedup", "classifierError"})
                    => PublishedBy(k) = <<>>)
    /\ [][\A k \in CycleIds :
            /\ (cycle[k].pc = "classify" /\ cycle'[k].pc = "persist")
                    => /\ Len(published') = Len(published) + 1
                       /\ SubSeq(published', 1, Len(published)) = published
                       /\ published'[Len(published')].cycle = k
                       /\ persisted' = persisted
            /\ (cycle[k].pc = "persist" /\ cycle'[k].pc = "ended")
                    => /\ published' = published
                       /\ cycle'[k].end \in {"published", "persistError"}
                       /\ cycle'[k].end = "published"
                            => persisted' = PublishedBy(k)[1].result
                       /\ cycle'[k].end = "persistError"
                            => /\ persisted' = persisted
                               /\ IF pending
                                  THEN /\ running' = nCycles + 1
                                       /\ nCycles' = nCycles + 1
                                       /\ cycle'[running'].pc = "fetch"
                                       /\ ~pending'
                                  ELSE running' = 0]_vars

PublishBeforePersistWitness ==
    \E k \in CycleIds :
        /\ cycle[k].end = "persistError"
        /\ Len(PublishedBy(k)) = 1
        /\ persisted = NoResult
        /\ running = k + 1
        /\ ~pending

\* C30 (as claimed): as long as a classifier call of a cycle is unsettled,
\* which it may stay for ever, the cycle has not ended whatever its other
\* calls did: this.running stands for it and no later cycle has started.
HungCallStallsSlot ==
    \A k \in CycleIds :
        Unsettled(k) => /\ running = k
                        /\ nCycles = k
                        /\ cycle[k].pc = "classify"

\* C31: the callback is called in the order of the cycles and at most
\* once for each; every cycle but the newest has ended, so that a cycle
\* publishes before the next one starts.
PublicationOrderThm ==
    /\ \A i, j \in 1..Len(published) :
            i < j => published[i].cycle < published[j].cycle
    /\ \A i \in 1..Len(published) : published[i].cycle <= nCycles
    /\ \A k \in CycleIds : k < nCycles => cycle[k].pc = "ended"

PublicationOrderWitness ==
    /\ Len(published) = 2
    /\ published[1].cycle = 1
    /\ published[2].cycle = 2
    /\ published[1].result.reasoning # published[2].result.reasoning
    /\ running = 0

\* C34: this.pending is set only while a cycle is running; with the slot
\* empty it is false.
PendingOnlyWhileRunningThm ==
    /\ pending => running # 0
    /\ running = 0 => ~pending

PendingOnlyWhileRunningWitness ==
    /\ pending
    /\ running = 1
    /\ coalesced = 2
    /\ debounceTimer = "fired"
    /\ cycle[1].pc = "persist"

\* C32 (as claimed): the cycle that the timeout of a burst started, once
\* it has fetched, holds the text that the working copy had at the last
\* passive save of the burst.
DebouncedCycleUsesBurstText ==
    \A k \in CycleIds :
        (/\ k = nCycles
         /\ cycle[k].parent = 0
         /\ cycle[k].fetch = "ok"
         /\ debounceTimer = "fired"
         /\ ~pending)
            => cycle[k].raw = burstText

\* C33: a trigger() call that finds the slot empty starts a cycle whose
\* fetch is still to come; one that finds it taken sets this.pending, and,
\* every fetch, classifier call and write settling sooner or later, a
\* later cycle starts; and the text a cycle fetches is the working copy at
\* its own fetch, for a rerun too, not the text of the cycle before it.
FreshFetchThm ==
    /\ [][/\ TriggerIssued /\ running = 0
                => /\ cycle'[nCycles'].pc = "fetch"
                   /\ cycle'[nCycles'].fetch = "none"
          /\ \A k \in CycleIds :
                (cycle[k].pc = "fetch" /\ cycle'[k].fetch = "ok")
                    => cycle'[k].raw = workingCopy]_vars
    /\ \A n \in 0..MaxCycles :
            (pending /\ nCycles = n)
                ~> (nCycles = n + 1 /\ cycle[n + 1].parent = n)

FreshFetchWitness ==
    /\ nCycles = 2
    /\ cycle[2].parent = 1
    /\ cycle[1].fetch = "ok"
    /\ cycle[2].fetch = "ok"
    /\ cycle[1].cleaned = DiffB
    /\ cycle[2].cleaned = <<"+", "a">>
    /\ cycle[2].pc = "classify"

\* C35 (as claimed): once dispose() has run (the interval timer is
\* cleared) no further cycle starts, neither the rerun of a pending
\* request nor a cycle for a save that comes afterwards.
NoCycleAfterDispose ==
    [][intervalTimer = "cleared" => nCycles' = nCycles]_vars

CleaningIdempotent ==
    cleaning.called => cleaning.sent = cleaning.diff

Requested ==
    \/ running = 0 /\ nCycles' = nCycles + 1
    \/ ~pending /\ pending'
    \/ coalesced' > coalesced

\* C39: of the saves, the manual one calls trigger() at once and leaves
\* the timeout as it is, armed with the time it had left, and the
\* passive one arms the timeout and calls nothing: a step with a
\* trigger() call either leaves timeout, window and burst unchanged or
\* is the timeout falling due; a step that arms the timeout begins no
\* cycle and sets no pending flag; and a timeout that fell due has been
\* followed by its own trigger() call.
ManualSaveKeepsTimeoutThm ==
    /\ [](debounceTimer = "fired" => nCycles >= 1)
    /\ [][/\ Requested
                => \/ debounce' = debounce
                   \/ /\ debounceTimer = "armed"
                      /\ debounceLeft = 0
                      /\ debounceTimer' = "fired"
                      /\ debounceLeft' = debounceLeft
          /\ (debounceTimer' = "armed" /\ debounceLeft' > debounceLeft)
                => /\ ~Requested
                   /\ UNCHANGED <<slot, cycle>>
          /\ (debounceTimer = "armed" /\ debounceLeft = 0
                /\ debounceTimer' = "fired")
                => Requested \/ (pending /\ coalesced = 2)]_vars

\* a passive save, then within the window a manual save, whose cycle is
\* still fetching when the timeout falls due: the second request is
\* coalesced behind the first
ManualSaveKeepsTimeoutWitness ==
    /\ debounceTimer = "fired"
    /\ burst = 1
    /\ nCycles = 1
    /\ running = 1
    /\ cycle[1].pc = "fetch"
    /\ pending
    /\ coalesced = 1

====
